---------------------------- MODULE Spec2Model ----------------------------
(***************************************************************************)
(* d8fmt: inferring a strftime directive string from an example rendering  *)
(* of the canonical instant 2004-10-31 13:12:11 (src/src/d8fmt.py).        *)
(*                                                                         *)
(* Python strings are modelled as TLA+ strings (sequences of characters);  *)
(* Len, SubSeq and \o act on them character by character.                  *)
(***************************************************************************)
EXTENDS Naturals, Sequences, FiniteSets

VARIABLES parts,   \* the example string, fragment by fragment as it was typed
          repl,    \* the second argument of snap_fmt (None or a dict)
          ret      \* outcome of the last call

vars == <<parts, repl, ret>>

---------------------------------------------------------------------------
(* Small helpers over strings and sequences.                               *)

Char(s, i) == SubSeq(s, i, i)

RECURSIVE JoinFrom(_, _)
JoinFrom(ps, i) == IF i > Len(ps) THEN "" ELSE ps[i] \o JoinFrom(ps, i + 1)

\* "".join(ps)
Join(ps) == JoinFrom(ps, 1)

\* key in s  (Python substring test)
Contains(s, key) ==
    \E i \in 1..(Len(s) - Len(key) + 1) : SubSeq(s, i, i + Len(key) - 1) = key

Digits == {"0", "1", "2", "3", "4", "5", "6", "7", "8", "9"}

---------------------------------------------------------------------------
(* DATETIME_LOOKUP_TABLE, d8fmt.py lines 54-119.                           *)

\* The key: value pairs of the dict display, in source order (the key
\* "October" is written twice, lines 83 and 85).
DATETIME_LOOKUP_ITEMS ==
    << <<"{HOUR12}", "%I">>, <<"{HOUR24}", "%H">>, <<"{DOY}", "%j">>,
       <<"{YEAR2}", "%y">>, <<"{YEAR4}", "%Y">>, <<"{MONTH}", "%B">>,
       <<"{MONTH3}", "%b">>, <<"{MONTH#}", "%m">>, <<"{DAY}", "%A">>,
       <<"{DAY3}", "%a">>, <<"{DAY#}", "%d">>, <<"{HOUR}", "%I">>,
       <<"{MINUTE}", "%M">>, <<"{SECOND}", "%S">>, <<"{MICROSEC}", "%f">>,
       <<"{AM}", "%p">>, <<"{PM}", "%p">>, <<"{WOY}", "%U">>,
       <<"{WOYISO}", "%W">>, <<"{WDAY#ISO}", "%u">>, <<"{WDAY#}", "%w">>,
       <<"{TZ}", "%Z">>, <<"{UTCOFF}", "%z">>, <<"{LOCALE}", "%x">>,
       <<".000000", ".%f">>, <<"2004", "%Y">>, <<"305", "%j">>,
       <<"October", "%B">>, <<"OCTOBER", "%B">>, <<"October", "%B">>,
       <<"october", "%B">>, <<"Oct", "%b">>, <<"OCT", "%b">>,
       <<"oct", "%b">>, <<"Sunday", "%A">>, <<"SUNDAY", "%A">>,
       <<"sunday", "%A">>, <<"SUN", "%a">>, <<"Sun", "%a">>,
       <<"sun", "%a">>, <<"01", "%I">>, <<"04", "%y">>,
       <<"10", "%m">>, <<"11", "%S">>, <<"12", "%M">>,
       <<"13", "%H">>, <<"31", "%d">>, <<"44", "%U">>,
       <<"43", "%W">>, <<"AM", "%p">>, <<"PM", "%p">>,
       <<"am", "%p">>, <<"pm", "%p">>, <<"0", "%w">>,
       <<"7", "%u">> >>

\* d[key] = value on an insertion-ordered dict: a key already present keeps
\* its position and takes the new value, a new key goes to the end.
DictSet(d, key, value) ==
    IF \E i \in 1..Len(d) : d[i][1] = key
    THEN [i \in 1..Len(d) |-> IF d[i][1] = key THEN <<key, value>> ELSE d[i]]
    ELSE Append(d, <<key, value>>)

RECURSIVE DictFrom(_, _)
DictFrom(items, n) ==
    IF n = 0 THEN <<>>
    ELSE CHOOSE d \in {DictSet(before, items[n][1], items[n][2]) :
                          before \in {DictFrom(items, n - 1)}} : TRUE

\* The dict a display {k1: v1, k2: v2, ...} evaluates to, as its items()
DictOf(items) == DictFrom(items, Len(items))

\* items with the entries of patterns a and b exchanged
SwapItems(items, a, b) ==
    LET ia == CHOOSE i \in 1..Len(items) : items[i][1] = a
        ib == CHOOSE i \in 1..Len(items) : items[i][1] = b
    IN  [i \in 1..Len(items) |->
            IF i = ia THEN items[ib] ELSE IF i = ib THEN items[ia] ELSE items[i]]

\* Mutant: the directives of "11" and "12" (seconds, minutes) exchanged
TableSecondsAsMinutes ==
    LET t == DictOf(DATETIME_LOOKUP_ITEMS)
    IN  [i \in 1..Len(t) |->
            IF t[i][1] = "11" THEN <<"11", "%M">>
            ELSE IF t[i][1] = "12" THEN <<"12", "%S">> ELSE t[i]]

\* Mutant: the two-digit year entered before the four-digit year
TableShortYearFirst == SwapItems(DictOf(DATETIME_LOOKUP_ITEMS), "2004", "04")

DATETIME_LOOKUP_TABLE == DictOf(DATETIME_LOOKUP_ITEMS)

---------------------------------------------------------------------------
(* is_zone_free, d8fmt.py lines 121-136.                                   *)

\* tz_offset_pattern = r" [+-]\d{4}" matched at position i (line 123)
TzOffsetAt(fmt, i) ==
    /\ i + 5 <= Len(fmt)
    /\ Char(fmt, i) = " "
    /\ Char(fmt, i + 1) \in {"+", "-"}
    /\ \A k \in 2..5 : Char(fmt, i + k) \in Digits

\* re.search(tz_offset_pattern, fmt) is not None (line 129)
TzOffsetSearch(fmt) == \E i \in 1..Len(fmt) : TzOffsetAt(fmt, i)

\* invalid_timezones (lines 125-126), in list order
invalid_timezones ==
    <<"PST", "EST", "CST", "MST", "AST", "HST", "AKST", "PDT", "EDT", "CDT",
      "MDT", "ADT", "HADT", "AKDT", "GMT">>

\* Index of the first tz of the list with `tz in fmt`, 0 when there is none
\* (the for loop of lines 133-135 raises at the first hit).
FirstTzIn(fmt) ==
    LET hits == {i \in 1..Len(invalid_timezones) :
                     Contains(fmt, invalid_timezones[i])}
    IN  IF hits = {} THEN 0
        ELSE CHOOSE i \in hits : \A j \in hits : i <= j

Returned(value, passes) ==
    [status |-> "ok", value |-> value, msg |-> "", passes |-> passes]

Raised(msg) ==
    [status |-> "ValueError", value |-> "", msg |-> msg, passes |-> 0]

is_zone_free(fmt) ==
    IF TzOffsetSearch(fmt)
    THEN Raised("Invalid format string: '" \o fmt
                \o "' contains unsupported +/-dddd patterns.")
    ELSE IF FirstTzIn(fmt) # 0
    THEN Raised("Invalid format string: '" \o fmt
                \o "' contains unsupported timezone abbreviation '"
                \o invalid_timezones[FirstTzIn(fmt)] \o "'.")
    ELSE Returned("True", 0)

---------------------------------------------------------------------------
(* snap_fmt, d8fmt.py lines 139-152.                                       *)

\* Start of the first occurrence of `old` in s at or after position i, 0 when
\* there is none (str.find)
FindFrom(s, old, i) ==
    LET hits == {j \in i..(Len(s) - Len(old) + 1) :
                     SubSeq(s, j, j + Len(old) - 1) = old}
    IN  IF hits = {} THEN 0
        ELSE CHOOSE j \in hits : \A h \in hits : j <= h

RECURSIVE ReplaceFrom(_, _, _, _)
ReplaceFrom(s, old, new, i) ==
    LET j == FindFrom(s, old, i)
    IN  IF j = 0 THEN SubSeq(s, i, Len(s))
        ELSE SubSeq(s, i, j - 1) \o new \o ReplaceFrom(s, old, new, j + Len(old))

RECURSIVE Interleave(_, _, _)
Interleave(s, new, i) ==
    IF i > Len(s) THEN new ELSE new \o Char(s, i) \o Interleave(s, new, i + 1)

\* Mutant: only the first occurrence is replaced (str.replace(old, new, 1))
str_replace_first(s, old, new) ==
    LET j == FindFrom(s, old, 1)
    IN  IF old = "" \/ j = 0 THEN s
        ELSE SubSeq(s, 1, j - 1) \o new \o SubSeq(s, j + Len(old), Len(s))

\* str.replace(old, new): every non-overlapping occurrence, scanning from the
\* left; an empty `old` matches before every character and at the end.
str_replace(s, old, new) ==
    IF old = "" THEN Interleave(s, new, 1)
    ELSE ReplaceFrom(s, old, new, 1)

\* Mutant: the loop returns after its first pass
ReplaceFirstItem(fmt, items, k) ==
    IF k > Len(items) THEN fmt
    ELSE str_replace(fmt, items[k][1], items[k][2])

\* The loop of lines 149-150 from item k on
RECURSIVE ReplaceItems(_, _, _)
ReplaceItems(fmt, items, k) ==
    IF k > Len(items) THEN fmt
    ELSE CHOOSE out \in {ReplaceItems(replaced, items, k + 1) :
                            replaced \in {str_replace(fmt, items[k][1], items[k][2])}} :
             TRUE

\* pattern = r"[+-]\d{4}" (line 144, assigned and never used) searched in fmt
PatternSearch(fmt) ==
    \E i \in 1..Len(fmt) :
        /\ i + 4 <= Len(fmt)
        /\ Char(fmt, i) \in {"+", "-"}
        /\ \A k \in 1..4 : Char(fmt, i + k) \in Digits

\* The argument `replacments`: None, or a dict given by its items()
None == [given |-> FALSE, items |-> <<>>]
Dict(items) == [given |-> TRUE, items |-> DictOf(items)]

\* replacments or DATETIME_LOOKUP_TABLE (line 141): None and the empty dict
\* are both falsy.
TableInUse(replacments) ==
    IF replacments.given /\ Len(replacments.items) > 0
    THEN replacments.items
    ELSE DATETIME_LOOKUP_TABLE

\* Mutant: the zone guard runs on the rewritten string, after the loop
snap_fmt_guard_last(fmt, replacments) ==
    LET replacements == TableInUse(replacments)
        out == ReplaceItems(fmt, replacements, 1)
        guard == is_zone_free(out)
    IN  IF guard.status # "ok" THEN guard
        ELSE Returned(out, Len(replacements))

snap_fmt(fmt, replacments) ==
    LET replacements == TableInUse(replacments)
        guard == is_zone_free(fmt)
    IN  IF guard.status # "ok" THEN guard
        ELSE Returned(ReplaceItems(fmt, replacements, 1), Len(replacements))

---------------------------------------------------------------------------
(* CANONICAL (lines 47-49) and datetime.strftime as stezftime (lines       *)
(* 155-188) and the round-trip test use it on the canonical instant.       *)

CANONICAL ==
    [year |-> 2004, month |-> 10, day |-> 31, hour |-> 13, minute |-> 12,
     second |-> 11, microsecond |-> 0, tzname |-> "UTC", utcoffset |-> "+0000"]

Digit(n) == Char("0123456789", n + 1)

RECURSIVE ZeroPad(_, _)
ZeroPad(n, width) ==
    IF width = 0 THEN "" ELSE ZeroPad(n \div 10, width - 1) \o Digit(n % 10)

IsLeap(y) == (y % 4 = 0 /\ y % 100 # 0) \/ y % 400 = 0

DaysInMonth(y, m) ==
    IF m = 2 THEN (IF IsLeap(y) THEN 29 ELSE 28)
    ELSE IF m \in {4, 6, 9, 11} THEN 30 ELSE 31

RECURSIVE DaysBeforeMonth(_, _)
DaysBeforeMonth(y, m) ==
    IF m = 1 THEN 0 ELSE DaysBeforeMonth(y, m - 1) + DaysInMonth(y, m - 1)

\* Day of the year, 1-based
YDay(t) == DaysBeforeMonth(t.year, t.month) + t.day

\* Proleptic Gregorian ordinal; weekday with Monday = 0
Ordinal(t) ==
    LET y == t.year - 1
    IN  (365 * y + y \div 4 + y \div 400 + YDay(t)) - y \div 100

Weekday(t) == (Ordinal(t) + 6) % 7

\* Day of the week with Sunday = 0
WDaySun(t) == (Weekday(t) + 1) % 7

MonthNames ==
    <<"January", "February", "March", "April", "May", "June", "July",
      "August", "September", "October", "November", "December">>

DayNames ==
    <<"Monday", "Tuesday", "Wednesday", "Thursday", "Friday", "Saturday",
      "Sunday">>

Hour12(t) == IF t.hour % 12 = 0 THEN 12 ELSE t.hour % 12

DirectiveLetters ==
    {"Y", "y", "m", "d", "H", "I", "M", "S", "f", "p", "j", "U", "W", "w",
     "u", "B", "b", "A", "a", "Z", "z", "x", "%"}

\* What the conversion %c renders for instant t (C locale)
Field(t, c) ==
    CASE c = "Y" -> ZeroPad(t.year, 4)
      [] c = "y" -> ZeroPad(t.year % 100, 2)
      [] c = "m" -> ZeroPad(t.month, 2)
      [] c = "d" -> ZeroPad(t.day, 2)
      [] c = "H" -> ZeroPad(t.hour, 2)
      [] c = "I" -> ZeroPad(Hour12(t), 2)
      [] c = "M" -> ZeroPad(t.minute, 2)
      [] c = "S" -> ZeroPad(t.second, 2)
      [] c = "f" -> ZeroPad(t.microsecond, 6)
      [] c = "p" -> IF t.hour < 12 THEN "AM" ELSE "PM"
      [] c = "j" -> ZeroPad(YDay(t), 3)
      [] c = "U" -> ZeroPad(((YDay(t) - 1) + 7 - WDaySun(t)) \div 7, 2)
      [] c = "W" -> ZeroPad(((YDay(t) - 1) + 7 - Weekday(t)) \div 7, 2)
      [] c = "w" -> Digit(WDaySun(t))
      [] c = "u" -> Digit(Weekday(t) + 1)
      [] c = "B" -> MonthNames[t.month]
      [] c = "b" -> SubSeq(MonthNames[t.month], 1, 3)
      [] c = "A" -> DayNames[Weekday(t) + 1]
      [] c = "a" -> SubSeq(DayNames[Weekday(t) + 1], 1, 3)
      [] c = "Z" -> t.tzname
      [] c = "z" -> t.utcoffset
      [] c = "x" -> ZeroPad(t.month, 2) \o "/" \o ZeroPad(t.day, 2) \o "/"
                    \o ZeroPad(t.year % 100, 2)
      [] c = "%" -> "%"

\* t.strftime(f): conversions are expanded, everything else is copied; a '%'
\* that starts no known conversion is copied as it stands (the C library's
\* behaviour on the platforms the tests run on).
RECURSIVE StrftimeFrom(_, _, _)
StrftimeFrom(t, f, i) ==
    IF i > Len(f) THEN ""
    ELSE IF Char(f, i) = "%" /\ i < Len(f) /\ Char(f, i + 1) \in DirectiveLetters
         THEN Field(t, Char(f, i + 1)) \o StrftimeFrom(t, f, i + 2)
         ELSE Char(f, i) \o StrftimeFrom(t, f, i + 1)

strftime(t, f) == StrftimeFrom(t, f, 1)

\* datetime_snap.stezftime (lines 156-188) on the instant `self`
stezftime(self, fmt) ==
    LET transformed_fmt == snap_fmt(fmt, None)
    IN  IF transformed_fmt.status # "ok" THEN transformed_fmt
        ELSE Returned(strftime(self, transformed_fmt.value),
                      transformed_fmt.passes)

---------------------------------------------------------------------------
(* The example strings and tables the calls are made with.  An example is  *)
(* kept as the sequence of pieces it was put together from; the calls see  *)
(* only the joined string.                                                 *)

\* Longest example of the general family, in pieces
MaxParts == 2

Keys(items) == {items[i][1] : i \in 1..Len(items)}

\* Patterns of the default table: braced placeholders and literal fragments
Patterns == Keys(DATETIME_LOOKUP_TABLE)
Placeholders == {k \in Patterns : Char(k, 1) = "{"}
Fragments == (Patterns \ Placeholders) \ {".000000"}

\* Fragments the canonical instant itself renders to (canonical case, PM)
CanonicalFragments ==
    {"2004", "04", "10", "31", "305", "13", "01", "12", "11", "44", "43", "0",
     "7", "October", "Oct", "Sunday", "Sun", "PM", ".000000"}

SepChars == {"-", "/", ":", ",", " "}
Separators == SepChars \cup {", "}

ZoneNames == {invalid_timezones[i] : i \in 1..Len(invalid_timezones)} \cup {"UTC"}

\* Pieces the general family is built from
Pool ==
    CanonicalFragments \cup SepChars
        \cup {"T", "AM", "oct", "SUNDAY", "{HOUR12}", "{DAY}", "{SECOND}",
              "{PM}", "unday", "M", "%", "PST", "UTC", "+1200", "-0930"}

RECURSIVE SeqsUpTo(_, _)
SeqsUpTo(S, n) ==
    IF n = 0 THEN {<<>>}
    ELSE LET shorter == SeqsUpTo(S, n - 1)
         IN  shorter \cup {Append(q, x) : q \in {r \in shorter : Len(r) = n - 1},
                                          x \in S}

General == SeqsUpTo(Pool, MaxParts) \ {<<>>}

\* Every pattern, zone name and piece on its own
Singles == {<<p>> : p \in Patterns \cup ZoneNames \cup Pool}

\* Two fields joined by a separator
Separated == {<<f, sep, g>> : f \in Fragments, sep \in Separators, g \in Fragments}

\* test_d8fmt.py lines 9-69 at the canonical instant of d8fmt.py, and the
\* first examples of the spec
SeparatedExamples ==
    { <<"2004", "-", "10", "-", "31", " ", "13", ":", "12", ":", "11">>,
      <<"Sunday", ", ", "October", " ", "31", ", ", "2004", " ", "01", ":",
        "12", ":", "11", " ", "PM">>,
      <<"2004", "-", "10", "-", "31">>,
      <<"13", ":", "12", ":", "11">>,
      <<"October", " ", "31", ", ", "2004">>,
      <<"Oct", " ", "31", ", ", "2004">>,
      <<"04", "-", "10", "-", "31">>,
      <<"Sun", ", ", "Oct", " ", "31", ", ", "2004">>,
      <<"2004", "-", "305">>,
      <<"01", ":", "12", ":", "11", " ", "PM">>,
      <<"2004", "-", "44">>,
      <<"2004", "-", "43">>,
      <<"10", "/", "31", "/", "2004", " ", "13", ":", "12", ":", "11">>,
      <<"Oct", "-", "31", "-", "2004", " ", "01", ":", "12", ":", "11", " ", "PM">> }

\* test_d8fmt.py lines 45-52 and 70-129 at the canonical instant: the field
\* orders without separators, field by field
PackedDates == {<<"2004", "10", "31">>, <<"04", "10", "31">>, <<"10", "31", "2004">>}
PackedTimes == {<<"13", "12", "11">>, <<"13", "12">>}
PackedDateTimes == {d \o <<"13", "12", "11">> : d \in PackedDates}
PackedExamples ==
    LET plain == PackedDates \cup PackedTimes \cup PackedDateTimes
        withT == {d \o <<"T", "13", "12", "11">> : d \in PackedDates}
        timed == {<<"13", "12", "11">>} \cup PackedDateTimes \cup withT
    IN  plain \cup withT \cup {e \o <<".000000">> : e \in timed}

\* test_ez.py lines 10-14
PlaceholderExamples ==
    { <<"{YEAR4}", "-", "{MONTH#}", "-", "{DAY#}">>,
      <<"{MONTH#}", "/", "{DAY#}", "/", "{YEAR2}", " at ", "{HOUR24}", ":",
        "{MINUTE}", ":", "{SECOND}">>,
      <<"{DAY}", ", ", "{MONTH}", " ", "{DAY#}", ", ", "{YEAR4}", " ",
        "{HOUR12}", ":", "{MINUTE}", ":", "{SECOND}", " ", "{PM}">>,
      <<"Canonical datetime">> }

\* test_d8fmt.py lines 145-155 at the canonical instant, the spec's two zone
\* examples, and free text around a time (lines 60, 63)
ZoneExamples ==
    { <<"2004-10-31 13:12", "+1200">>,
      <<"13:12", "-0930">>,
      <<"Schedule at 20041031", "+0800">>,
      <<"YYYY-MM-DDTHH:MM:SS", "-0500">>,
      <<"The time is 13:12 ", "PST">>,
      <<"Event starts at 15:00 ", "EST">>,
      <<"Date: 2004-10-31 ", "CDT">>,
      <<"Midnight at 00:00 ", "MST">>,
      <<"2004-10-31 ", "HST">>,
      <<"Start 08:00 ", "PDT">>,
      <<"2004-10-31T13:12:11 ", "+0530">>,
      <<"2004-10-31T13:12:11 ", "PST">>,
      <<"2004-10-31T13:12:11 ", "UTC">>,
      <<"2004", "-", "10", "-", "31", " at ", "13", ":", "12", ":", "11">>,
      <<"Time is ", "13", ":", "12", ":", "11">> }

Inputs ==
    General \cup Singles \cup Separated \cup SeparatedExamples
        \cup PackedExamples \cup PlaceholderExamples \cup ZoneExamples

\* s occurs in t and is shorter
ProperSubstring(s, t) == Len(s) < Len(t) /\ Contains(t, s)

\* <<longer, shorter>> for the patterns of the default table that nest
NestedPairs ==
    {pr \in Patterns \X Patterns : ProperSubstring(pr[2], pr[1])}

Swapped(pr) ==
    [given |-> TRUE, items |-> SwapItems(DATETIME_LOOKUP_TABLE, pr[1], pr[2])]

\* Tables passed as second argument: an empty dict, one entry, a table whose
\* directives are patterns of its own, and two fragments of another instant
CustomTables ==
    { Dict(<<>>),
      Dict(<< <<"Canonical", "%c">> >>),
      Dict(<< <<"a", "b">>, <<"b", "a">> >>),
      Dict(<< <<"09", "%S">>, <<"08", "%M">> >>) }

CustomInputs ==
    Singles \cup {<<"Canonical datetime">>, <<"a">>, <<"b">>, <<"ab", "a">>,
                  <<"13", "08", "09", ".000000">>}

Calls ==
    (Inputs \X {None})
        \cup (CustomInputs \X CustomTables)
        \cup {<<(<<pr[1]>>), Swapped(pr)>> : pr \in NestedPairs}

---------------------------------------------------------------------------
(* The calls.                                                              *)

fmt == Join(parts)

NoCall ==
    [op |-> "none", status |-> "none", value |-> "", msg |-> "", passes |-> 0]

Outcome(op, r) ==
    [op |-> op, status |-> r.status, value |-> r.value, msg |-> r.msg,
     passes |-> r.passes]

Init ==
    /\ \E call \in Calls : parts = call[1] /\ repl = call[2]
    /\ ret = NoCall

\* is_zone_free(fmt)
CallIsZoneFree ==
    /\ ret = NoCall
    /\ ret' = Outcome("is_zone_free", is_zone_free(fmt))
    /\ UNCHANGED <<parts, repl>>

\* snap_fmt(fmt) or snap_fmt(fmt, repl)
CallSnapFmt ==
    /\ ret = NoCall
    /\ ret' = Outcome("snap_fmt", snap_fmt(fmt, repl))
    /\ UNCHANGED <<parts, repl>>

\* CANONICAL rendered with the example: stezftime takes no table
CallStezftime ==
    /\ ret = NoCall
    /\ repl = None
    /\ ret' = Outcome("stezftime", stezftime(CANONICAL, fmt))
    /\ UNCHANGED <<parts, repl>>

Next == CallIsZoneFree \/ CallSnapFmt \/ CallStezftime

Spec == Init /\ [][Next]_vars

---------------------------------------------------------------------------
(* Properties.                                                             *)

\* T[key] on the default table
DirectiveOf(key) ==
    DATETIME_LOOKUP_TABLE[CHOOSE i \in 1..Len(DATETIME_LOOKUP_TABLE) :
                              DATETIME_LOOKUP_TABLE[i][1] = key][2]

OccursAt(s, key, i) ==
    i + Len(key) - 1 <= Len(s) /\ SubSeq(s, i, i + Len(key) - 1) = key

NoPatternIn(s) == \A key \in Patterns : ~Contains(s, key)

\* The example with every piece that satisfies IsField(piece) replaced by
\* that piece's directive and every other piece left as it is
FieldsToDirectives(ps, IsField(_)) ==
    Join([i \in 1..Len(ps) |-> IF IsField(ps[i]) THEN DirectiveOf(ps[i]) ELSE ps[i]])

IsPattern(p) == p \in Patterns
IsPlaceholder(p) == p \in Placeholders

\* A non-empty string of separator characters
IsSeparator(p) == Len(p) > 0 /\ \A i \in 1..Len(p) : Char(p, i) \in SepChars

\* Whole fragments joined by separators: field, separator, field, ...
SeparatedFields ==
    /\ Len(parts) % 2 = 1
    /\ \A i \in 1..Len(parts) :
          IF i % 2 = 1 THEN parts[i] \in Fragments ELSE IsSeparator(parts[i])

\* Only fragments the canonical instant renders to, separators and "T"
CanonicalExample ==
    \A i \in 1..Len(parts) : parts[i] \in CanonicalFragments \cup SepChars \cup {"T"}

\* Placeholders, each followed by nothing, another placeholder, or one piece
\* of text that holds no pattern
PlaceholderExample ==
    /\ \E i \in 1..Len(parts) : parts[i] \in Placeholders
    /\ \A i \in 1..Len(parts) :
          \/ parts[i] \in Placeholders
          \/ /\ NoPatternIn(parts[i])
             /\ i = 1 \/ parts[i - 1] \in Placeholders

(* C1 as stated: for every example the zone guard accepts, rendering the   *)
(* canonical instant with the directive string snap_fmt returns under the  *)
(* default table reproduces the example exactly.                           *)
C1_RoundTripEveryAccepted ==
    ret.op = "stezftime" /\ ret.status = "ok" => ret.value = fmt

(* C1 amended: the round trip holds for every accepted example put         *)
(* together from the fragments the canonical instant renders to (2004, 04, *)
(* 10, 31, 305, 13, 01, 12, 11, 44, 43, 0, 7, October, Oct, Sunday, Sun,   *)
(* PM, .000000), the separators - / : , space and "T".                     *)
C1_RoundTripCanonical ==
    ret.op = "stezftime" /\ ret.status = "ok" /\ CanonicalExample
        => ret.value = fmt

C1_Witness ==
    /\ ret.op = "stezftime"
    /\ ret.status = "ok"
    /\ CanonicalExample
    /\ Len(parts) = 11
    /\ ret.value = "2004-10-31 13:12:11"

(* C2: an accepted example of whole fragments joined by separators is      *)
(* rewritten by snap_fmt to the same string with each fragment replaced by *)
(* its own directive and every separator unchanged.                        *)
C2_SeparatedFields ==
    ret.op = "snap_fmt" /\ repl = None /\ ret.status = "ok" /\ SeparatedFields
        => ret.value = FieldsToDirectives(parts, IsPattern)

C2_Witness ==
    /\ ret.op = "snap_fmt"
    /\ repl = None
    /\ SeparatedFields
    /\ fmt = "Sunday, October 31, 2004 01:12:11 PM"
    /\ ret.value = "%A, %B %d, %Y %I:%M:%S %p"

(* C3: an example packed from canonical fields without separators, in the  *)
(* field orders the tests list, is rewritten by snap_fmt to the directives *)
(* of its fields in the same order, one directive per field.               *)
C3_PackedFields ==
    ret.op = "snap_fmt" /\ repl = None /\ parts \in PackedExamples
        => /\ ret.status = "ok"
           /\ ret.value = FieldsToDirectives(parts, IsPattern)

(* C4: is_zone_free and snap_fmt fail for every string that holds a sign   *)
(* directly followed by four digits, with or without a space before it.    *)
C4_OffsetRejected ==
    ret.op \in {"is_zone_free", "snap_fmt"} /\ PatternSearch(fmt)
        => ret.status = "ValueError"

\* The abbreviations C5 says the deny-list covers
ClaimedZoneNames ==
    {"PST", "PDT", "MST", "MDT", "CST", "CDT", "EST", "EDT", "AST", "ADT",
     "HST", "AKST", "AKDT", "GMT", "UTC"}

(* C5: is_zone_free fails for every string that holds one of the listed    *)
(* zone abbreviations, UTC among them, anywhere; the error names the       *)
(* original string and an abbreviation found in it (or the offset, when    *)
(* the string holds one too).                                              *)
C5_ZoneNameRejected ==
    ret.op = "is_zone_free" /\ (\E tz \in ClaimedZoneNames : Contains(fmt, tz))
        => /\ ret.status = "ValueError"
           /\ Contains(ret.msg, "'" \o fmt \o "'")
           /\ \/ TzOffsetSearch(fmt)
              \/ \E tz \in ClaimedZoneNames :
                    Contains(fmt, tz) /\ Contains(ret.msg, "'" \o tz \o "'")

(* C6: snap_fmt runs the zone guard on the unmodified example before the   *)
(* first replacement: when the guard rejects it snap_fmt raises the guard's*)
(* error, having made no replacement pass and returning no string; when    *)
(* the guard accepts it snap_fmt returns a string after a pass for every   *)
(* entry of the table in use.  So snap_fmt fails exactly where the guard   *)
(* does.                                                                   *)
C6_FailFast ==
    ret.op = "snap_fmt"
        => LET guard == is_zone_free(fmt)
           IN  IF guard.status = "ok"
               THEN ret.status = "ok" /\ ret.passes = Len(TableInUse(repl))
               ELSE /\ ret.status = guard.status
                    /\ ret.msg = guard.msg
                    /\ ret.value = ""
                    /\ ret.passes = 0

C6_Witness ==
    /\ ret.op = "snap_fmt"
    /\ ret.status = "ValueError"
    /\ parts = <<" ", "-0930">>
    /\ ret.passes = 0

\* The table the caller handed over, the default one when none was passed
TablePassed(replacments) ==
    IF replacments.given THEN replacments.items ELSE DATETIME_LOOKUP_TABLE

(* C7: whatever table is passed, the empty one included, an accepted       *)
(* example that holds no pattern of that table is returned unchanged.      *)
C7_Passthrough ==
    /\ ret.op = "snap_fmt"
    /\ ret.status = "ok"
    /\ \A key \in Keys(TablePassed(repl)) : ~Contains(fmt, key)
    => ret.value = fmt

(* C8: every placeholder of an accepted example is replaced by exactly its *)
(* own directive, whatever literal text stands next to it.                 *)
C8_Placeholders ==
    ret.op = "snap_fmt" /\ repl = None /\ ret.status = "ok" /\ PlaceholderExample
        => ret.value = FieldsToDirectives(parts, IsPlaceholder)

(* C9 as stated: the string snap_fmt returns holds no pattern of the table *)
(* in use.                                                                 *)
C9_NoPatternLeft ==
    ret.op = "snap_fmt" /\ ret.status = "ok"
        => \A key \in Keys(TableInUse(repl)) : ~Contains(ret.value, key)

(* C9 amended: under the default table, the string snap_fmt returns holds  *)
(* a pattern only where the pattern starts with the letter of a directive, *)
(* directly after its '%' ("11unday" gives "%Sunday"); no pattern is left  *)
(* anywhere else.                                                          *)
C9_PatternOnlyAtDirective ==
    ret.op = "snap_fmt" /\ ret.status = "ok" /\ TableInUse(repl) = DATETIME_LOOKUP_TABLE
        => \A key \in Patterns : \A i \in 1..Len(ret.value) :
              OccursAt(ret.value, key, i) => i > 1 /\ Char(ret.value, i - 1) = "%"

C9_Witness ==
    /\ ret.op = "snap_fmt"
    /\ repl = None
    /\ parts = <<"11", "unday">>
    /\ ret.value = "%Sunday"

\* Whenever one pattern of the table lies inside another, the longer one
\* comes first
LongerFirst ==
    \A i, j \in 1..Len(DATETIME_LOOKUP_TABLE) :
        ProperSubstring(DATETIME_LOOKUP_TABLE[j][1], DATETIME_LOOKUP_TABLE[i][1])
            => i < j

(* C10: of two patterns of the default table one of which lies inside the  *)
(* other, the longer comes first; snap_fmt on the longer pattern alone     *)
(* returns the longer pattern's directive, and with the two entries        *)
(* exchanged it returns something else.                                    *)
C10_TableOrder ==
    /\ LongerFirst
    /\ ret.op = "snap_fmt" /\ Len(parts) = 1 =>
          \A pr \in NestedPairs :
              parts[1] = pr[1] =>
                  /\ repl = None => ret.value = DirectiveOf(pr[1])
                  /\ repl = Swapped(pr) => ret.value # DirectiveOf(pr[1])

C10_Witness ==
    /\ ret.op = "snap_fmt"
    /\ parts = <<"2004">>
    /\ repl = Swapped(<<"2004", "04">>)
    /\ ret.value = "2%w%y"

===========================================================================
